---------------------------- MODULE Spec2Model ----------------------------
(***************************************************************************)
(* A model of esm2pdf.py: the crawler (crawl_all), the sequencer           *)
(* (order_urls), the page renderer (print_to_pdf) and the document merger  *)
(* (merge_pdfs).                                                           *)
(*                                                                         *)
(* Python strings are modelled as sequences of one-character strings (the  *)
(* origin's scheme and host being one element each), so that url_path,     *)
(* normalize, the substring tests, sorted() and the file naming are        *)
(* computed character by character as the code computes them.              *)
(***************************************************************************)
EXTENDS Integers, Sequences, FiniteSets, TLC

(***************************************************************************)
(* Bounds of the model.                                                    *)
(***************************************************************************)
MaxLinks == 1      \* anchors per page, at most
MaxSeeds == 2      \* length of the seed list, at most
MaxInput == 3      \* length of the list handed to order_urls, at most
MaxBatch == 2      \* length of the list handed to print_to_pdf, at most
MaxRuns  == 2      \* pipeline runs sharing one output directory
MaxFiles == 2      \* per-page PDFs in the directory merge_pdfs reads
MaxPages == 2      \* pages of one per-page PDF, at most

(***************************************************************************)
(* Strings.                                                                *)
(***************************************************************************)
\* The characters the model uses, in code point order: Python compares
\* strings by code point, and only the relative order matters.
CHARS ==
    << " ", "#", "-", ".", "/",
       "0", "1", "2", "3", "4", "5", "6", "7", "8", "9",
       ":", ";", "?", "A", "a", "b", "c", "d", "e", "f", "g", "h", "i",
       "l", "m", "n", "o", "p", "q", "r", "s", "t", "v", "x" >>

Ord(c) == CHOOSE i \in 1..Len(CHARS) : CHARS[i] = c

Range(s) == {s[i] : i \in 1..Len(s)}

Min(S) == CHOOSE x \in S : \A y \in S : x <= y
Max(S) == CHOOSE x \in S : \A y \in S : y <= x

\* a < b on Python strings
StrLess(a, b) ==
    LET n    == IF Len(a) < Len(b) THEN Len(a) ELSE Len(b)
        diff == {i \in 1..n : a[i] # b[i]}
    IN  IF diff = {} THEN Len(a) < Len(b)
        ELSE Ord(a[Min(diff)]) < Ord(b[Min(diff)])

\* needle in hay
Contains(hay, needle) ==
    \E i \in 1..(Len(hay) - Len(needle) + 1) :
        SubSeq(hay, i, i + Len(needle) - 1) = needle

\* s.find(one of cs, from): the first index >= from holding a character of
\* cs, Len(s) + 1 when there is none
Find(s, cs, from) ==
    LET hits == {i \in from..Len(s) : s[i] \in cs}
    IN  IF hits = {} THEN Len(s) + 1 ELSE Min(hits)

\* s.rfind(c): the last index holding c, 0 when there is none
RFind(s, c) ==
    LET hits == {i \in 1..Len(s) : s[i] = c}
    IN  IF hits = {} THEN 0 ELSE Max(hits)

\* sorted(seq): insertion of each element after the elements not above it
RECURSIVE Sorted(_)
Sorted(seq) ==
    IF seq = << >> THEN << >>
    ELSE LET rest == Sorted(Tail(seq))
             x    == Head(seq)
             k    == Cardinality({i \in 1..Len(rest) : StrLess(rest[i], x)})
         IN  SubSeq(rest, 1, k) \o <<x>> \o SubSeq(rest, k + 1, Len(rest))

\* the sequences without repetition over S, of length lo..hi
InjSeqs(S, lo, hi) ==
    UNION {{s \in [1..n -> S] : \A i, j \in 1..n : i # j => s[i] # s[j]} :
             n \in lo..hi}

\* the sequences over S of length lo..hi
SeqsOf(S, lo, hi) == UNION {[1..n -> S] : n \in lo..hi}

(***************************************************************************)
(* Configuration.                                                          *)
(***************************************************************************)
\* the scheme name and the host name are one element each: no operation of
\* the program looks inside them, and every URL of the model starts with them
BASE == << "https", ":", "/", "/", "engsoftmoderna.info" >>

HTML == << ".", "h", "t", "m", "l" >>
CAP  == << "/", "c", "a", "p" >>

CHAPTERS_IN_ORDER ==
    << CAP \o <<"0">> \o HTML,
       CAP \o <<"1">> \o HTML,
       CAP \o <<"2">> \o HTML,
       CAP \o <<"3">> \o HTML,
       CAP \o <<"4">> \o HTML,
       CAP \o <<"5">> \o HTML,
       CAP \o <<"6">> \o HTML,
       CAP \o <<"7">> \o HTML,
       CAP \o <<"8">> \o HTML,
       CAP \o <<"9">> \o HTML,
       CAP \o <<"1", "0">> \o HTML,
       CAP \o <<"A", "p">> \o HTML >>

ARTIGOS_MARK == << "/", "a", "r", "t", "i", "g", "o", "s", "/" >>
FAQ_MARK     == << "/", "f", "a", "q", "/" >>

EXTRA_ROOTS ==
    << << "/" >>,
       ARTIGOS_MARK \o << "a", "r", "t", "i", "g", "o", "s" >> \o HTML,
       << "/", "p", "r", "a", "t", "i", "c", "a", "s" >> \o HTML,
       FAQ_MARK \o << "t", "e", "s", "t", "e", "s", "-", "f", "a", "q" >> \o HTML,
       FAQ_MARK \o << "g", "i", "t", "-", "f", "a", "q" >> \o HTML >>

(***************************************************************************)
(* The URLs of the model.                                                  *)
(***************************************************************************)
U_cap1   == BASE \o CHAPTERS_IN_ORDER[2]
U_cap3   == BASE \o CHAPTERS_IN_ORDER[4]
U_capAp  == BASE \o CHAPTERS_IN_ORDER[12]
\* the same path as U_cap1, with parameters (normalize keeps them)
U_cap1v  == U_cap1 \o << ";", "v" >>
U_home   == BASE \o << "/" >>
\* the origin without the trailing slash: url_path gives "/" as for U_home
U_origin == BASE
U_artidx == BASE \o EXTRA_ROOTS[2]
U_art    == BASE \o ARTIGOS_MARK \o << "t", "d", "d" >> \o HTML
U_faq    == BASE \o FAQ_MARK \o << "x" >> \o HTML
\* holds both markers
U_artfaq == BASE \o << "/", "a", "r", "t", "i", "g", "o", "s" >> \o FAQ_MARK
                 \o << "x" >> \o HTML
U_other  == BASE \o << "/", "s", "o", "b", "r", "e" >> \o HTML

(***************************************************************************)
(* State.                                                                  *)
(***************************************************************************)
VARIABLES
    \* crawl_all
    site,        \* the web: what fetch_html finds at each URL
    start_urls,  \* crawl_all's argument
    q,           \* the frontier deque
    seen,        \* the keys of the OrderedDict, in insertion order
    cpc,         \* "loop", "done" (returned) or "raised"
    fetches,     \* how often fetch_html was called on each URL
    \* order_urls
    all_urls,    \* order_urls's argument
    shuffled,    \* the same URLs in another order
    ordered,     \* order_urls(all_urls)
    reordered,   \* order_urls(shuffled)
    opc,         \* "call" or "done"
    \* print_to_pdf
    run,         \* the number of the pipeline run
    urls,        \* print_to_pdf's argument
    idx,         \* the loop's 1-based position
    browser,     \* "none", "open" or "closed"
    closes,      \* how often browser.close() was called in this run
    ppc,         \* "launch", "newpage", "loop", "returned" or "raised"
    fatal,       \* what made print_to_pdf raise: "none", "launch", "newpage",
                 \* "interrupt"
    visited,     \* the URLs page.goto was called on, in order
    errs,        \* the positions whose goto or pdf raised an Exception
    written,     \* the names of the files page.pdf wrote in this run
    \* the output directory OUT_DIR: file name -> content
    out_dir,
    \* merge_pdfs
    parts,       \* the sorted file names still to read
    writer,      \* the pages added to the PdfWriter
    added,       \* the counter of added pages
    final,       \* the pages of FINAL_PDF
    mpc          \* "idle", "list", "read" or "done"

crawlVars  == << site, start_urls, q, seen, cpc, fetches >>
orderVars  == << all_urls, shuffled, ordered, reordered, opc >>
renderVars == << run, urls, idx, browser, closes, ppc, fatal, visited, errs,
                 written >>
mergeVars  == << parts, writer, added, final, mpc >>
vars == << crawlVars, orderVars, renderVars, out_dir, mergeVars >>

(***************************************************************************)
(* url_path and order_urls.                                                *)
(***************************************************************************)
\* urllib.parse.urlparse(url).path, for a URL with a scheme: the scheme and
\* the netloc are cut off, then the fragment, the query, and the parameters
\* of the last path segment
UrlParsePath(url) ==
    LET colon   == Find(url, {":"}, 1)
        u1      == SubSeq(url, colon + 1, Len(url))
        hasNet  == Len(u1) >= 2 /\ u1[1] = "/" /\ u1[2] = "/"
        u2      == IF hasNet
                   THEN SubSeq(u1, Find(u1, {"/", "?", "#"}, 3), Len(u1))
                   ELSE u1
        u3      == SubSeq(u2, 1, Find(u2, {"#"}, 1) - 1)
        u4      == SubSeq(u3, 1, Find(u3, {"?"}, 1) - 1)
        slash   == RFind(u4, "/")
        semi    == Find(u4, {";"}, IF slash = 0 THEN 1 ELSE slash)
    IN  SubSeq(u4, 1, semi - 1)

url_path(url) ==
    IF UrlParsePath(url) = << >> THEN << "/" >> ELSE UrlParsePath(url)

\* {url_path(u): u for u in all_urls}: a later URL replaces an earlier one
\* that has the same path
by_path(us) ==
    [p \in {url_path(us[i]) : i \in 1..Len(us)} |->
        us[Max({i \in 1..Len(us) : url_path(us[i]) = p})]]

\* for p in CHAPTERS_IN_ORDER: if p in by_path: ordered.append(by_path[p])
RECURSIVE AppendChapters(_, _, _)
AppendChapters(paths, bp, acc) ==
    IF paths = << >> THEN acc
    ELSE AppendChapters(Tail(paths), bp,
            IF Head(paths) \in DOMAIN bp
            THEN Append(acc, bp[Head(paths)]) ELSE acc)

\* for p in EXTRA_ROOTS: if p in by_path and by_path[p] not in ordered: ...
RECURSIVE AppendExtras(_, _, _)
AppendExtras(paths, bp, acc) ==
    IF paths = << >> THEN acc
    ELSE AppendExtras(Tail(paths), bp,
            IF Head(paths) \in DOMAIN bp /\ bp[Head(paths)] \notin Range(acc)
            THEN Append(acc, bp[Head(paths)]) ELSE acc)

InArtigos(u) == Contains(u, ARTIGOS_MARK)
InFaq(u)     == Contains(u, FAQ_MARK)
InOthers(u)  == ~Contains(u, ARTIGOS_MARK) /\ ~Contains(u, FAQ_MARK)

order_urls(us) ==
    LET bp       == by_path(us)
        chapters == AppendChapters(CHAPTERS_IN_ORDER, bp, << >>)
        roots    == AppendExtras(EXTRA_ROOTS, bp, chapters)
        NotYet(u) == u \notin Range(roots)
        rest     == SelectSeq(us, NotYet)
        artigos  == Sorted(SelectSeq(rest, InArtigos))
        faq      == Sorted(SelectSeq(rest, InFaq))
        others   == Sorted(SelectSeq(rest, InOthers))
    IN  roots \o artigos \o faq \o others

\* the URLs order_urls is tried on
ORDER_URLS ==
    { U_cap1, U_cap3, U_capAp, U_cap1v, U_home, U_origin, U_artidx,
      U_art, U_faq, U_artfaq, U_other }

CrawlIdle ==
    /\ site = << >> /\ start_urls = << >> /\ q = << >> /\ seen = << >>
    /\ cpc = "idle" /\ fetches = << >>

OrderIdle ==
    /\ all_urls = << >> /\ shuffled = << >> /\ ordered = << >>
    /\ reordered = << >> /\ opc = "idle"

RenderIdle ==
    /\ run = 0 /\ urls = << >> /\ idx = 0 /\ browser = "none" /\ closes = 0
    /\ ppc = "idle" /\ fatal = "none" /\ visited = << >> /\ errs = {}
    /\ written = {}

MergeIdle ==
    /\ parts = << >> /\ writer = << >> /\ added = 0 /\ final = << >>
    /\ mpc = "idle"

PipelineIdle == RenderIdle /\ MergeIdle /\ out_dir = << >>

(***************************************************************************)
(* normalize, extract_links and crawl_all.                                 *)
(***************************************************************************)
StartsWith(s, pre) == Len(s) >= Len(pre) /\ SubSeq(s, 1, Len(pre)) = pre
EndsWith(s, suf) ==
    Len(s) >= Len(suf) /\ SubSeq(s, Len(s) - Len(suf) + 1, Len(s)) = suf

\* str.lower() on the characters of the model
Lower(s) == [i \in 1..Len(s) |-> IF s[i] = "A" THEN "a" ELSE s[i]]

SKIP_EXTS ==
    << << ".", "p", "n", "g" >>, << ".", "j", "p", "g" >>,
       << ".", "j", "p", "e", "g" >>, << ".", "s", "v", "g" >>,
       << ".", "g", "i", "f" >>, << ".", "p", "d", "f" >>,
       << ".", "z", "i", "p" >>, << ".", "m", "p", "4" >>,
       << ".", "w", "e", "b", "m" >>, << ".", "i", "c", "o" >> >>

\* HTML_OK.match(url): ^https://engsoftmoderna\.info(/.*)?$, ignoring case
is_internal(url) ==
    /\ StartsWith(Lower(url), BASE)
    /\ (Len(url) = Len(BASE) \/ url[Len(BASE) + 1] = "/")

\* whether href starts with a scheme, and where its colon is
SchemeEnd(href) ==
    LET colon == Find(href, {":"}, 1)
    IN  IF colon > 1 /\ colon <= Len(href)
           /\ Find(href, {"/", "?", "#"}, 1) > colon
        THEN colon ELSE 0

\* urlsplit refuses a netloc with one bracket and not the other
BadNetloc(href) ==
    LET u == SubSeq(href, SchemeEnd(href) + 1, Len(href))
        netloc == SubSeq(u, 3, Find(u, {"/", "?", "#"}, 3) - 1)
    IN  /\ StartsWith(u, << "/", "/" >>)
        /\ ("[" \in Range(netloc)) # ("]" \in Range(netloc))

\* up.urljoin(BASE, href), for an href that is absolute, scheme-relative or
\* an absolute path
urljoin(href) ==
    IF SchemeEnd(href) > 0 THEN href
    ELSE IF StartsWith(href, << "/", "/" >>)
         THEN SubSeq(BASE, 1, 2) \o href
         ELSE BASE \o href

\* the URL with fragment and query removed: u._replace(fragment="",
\* query="") and urlunparse
StripFragmentQuery(absu) == SubSeq(absu, 1, Find(absu, {"#", "?"}, 1) - 1)

\* normalize(href): [raised |-> TRUE] when urljoin raises ValueError, else
\* the URL, << >> for "discard"
normalize(href) ==
    IF href = << >> \/ href[1] = "#" THEN [raised |-> FALSE, url |-> << >>]
    ELSE IF BadNetloc(href) THEN [raised |-> TRUE, url |-> << >>]
    ELSE LET absu == StripFragmentQuery(urljoin(href))
         IN  IF ~is_internal(absu) THEN [raised |-> FALSE, url |-> << >>]
             ELSE IF \E i \in 1..Len(SKIP_EXTS) :
                        EndsWith(Lower(absu), SKIP_EXTS[i])
                  THEN [raised |-> FALSE, url |-> << >>]
                  ELSE [raised |-> FALSE, url |-> absu]

\* extract_links(html), html given as the href values of its anchors in
\* document order: the exception of normalize is not caught
RECURSIVE extract_links(_)
extract_links(hrefs) ==
    IF hrefs = << >> THEN [raised |-> FALSE, links |-> << >>]
    ELSE LET n    == normalize(Head(hrefs))
             rest == extract_links(Tail(hrefs))
         IN  IF n.raised \/ rest.raised
             THEN [raised |-> TRUE, links |-> << >>]
             ELSE [raised |-> FALSE,
                   links  |-> IF n.url = << >> THEN rest.links
                              ELSE << n.url >> \o rest.links]

\* the URLs of the crawled site
CRAWL_URLS == { U_home, U_cap1, U_art }

\* the href values its pages hold: an absolute path with query and fragment,
\* an absolute URL, a same-page anchor, and one that urljoin cannot resolve
H_cap1 == CHAPTERS_IN_ORDER[2] \o << "?", "x", "#", "s" >>
H_art  == U_art
H_top  == << "#", "t", "o", "p" >>
H_bad  == << "/", "/", "[" >>
HREFS  == { H_cap1, H_art, H_top, H_bad }

\* what fetch_html finds at a URL: an error, or a page
PAGES ==
    { [fetch |-> "error", hrefs |-> << >>] } \cup
    { [fetch |-> "ok", hrefs |-> h] : h \in SeqsOf(HREFS, 0, MaxLinks) }

\* extract_links on every page of the model, computed once
Extracted == [h \in SeqsOf(HREFS, 0, MaxLinks) |-> extract_links(h)]

InitCrawl ==
    /\ site \in [CRAWL_URLS -> PAGES]
    /\ start_urls \in SeqsOf(CRAWL_URLS, 1, MaxSeeds)
    /\ q = start_urls
    /\ seen = << >>
    /\ cpc = "loop"
    /\ fetches = [u \in CRAWL_URLS |-> 0]
    /\ OrderIdle
    /\ PipelineIdle

\* url = q.popleft(); if url in seen: continue
CrawlSkipSeen ==
    /\ cpc = "loop" /\ q # << >>
    /\ Head(q) \in Range(seen)
    /\ q' = Tail(q)
    /\ UNCHANGED << site, start_urls, seen, cpc, fetches, orderVars, renderVars,
                   out_dir, mergeVars >>

\* CrawlFetchFail with the URL recorded as seen before the fetch is tried
CrawlFetchFail_MarksSeen ==
    /\ cpc = "loop" /\ q # << >>
    /\ Head(q) \notin Range(seen)
    /\ site[Head(q)].fetch = "error"
    /\ fetches' = [fetches EXCEPT ![Head(q)] = @ + 1]
    /\ seen' = Append(seen, Head(q))
    /\ q' = Tail(q)
    /\ UNCHANGED << site, start_urls, cpc, orderVars, renderVars, out_dir,
                   mergeVars >>

\* fetch_html(url) raises: except Exception: continue
CrawlFetchFail ==
    /\ cpc = "loop" /\ q # << >>
    /\ Head(q) \notin Range(seen)
    /\ site[Head(q)].fetch = "error"
    /\ fetches' = [fetches EXCEPT ![Head(q)] = @ + 1]
    /\ q' = Tail(q)
    /\ UNCHANGED << site, start_urls, seen, cpc, orderVars, renderVars,
                   out_dir, mergeVars >>

\* for nxt in extract_links(html): if nxt not in seen: q.append(nxt)
NewLinks(links, seenNow) ==
    LET Fresh(u) == u \notin Range(seenNow) IN SelectSeq(links, Fresh)

\* the fetch succeeds: seen[url] = True, and the links join the frontier
CrawlVisit ==
    /\ cpc = "loop" /\ q # << >>
    /\ Head(q) \notin Range(seen)
    /\ site[Head(q)].fetch = "ok"
    /\ LET found == Extracted[site[Head(q)].hrefs]
       IN  /\ ~found.raised
           /\ seen' = Append(seen, Head(q))
           /\ q' = Tail(q) \o NewLinks(found.links, seen')
    /\ fetches' = [fetches EXCEPT ![Head(q)] = @ + 1]
    /\ UNCHANGED << site, start_urls, cpc, orderVars, renderVars, out_dir,
                   mergeVars >>

\* the fetch succeeds, seen[url] = True, and extract_links raises: nothing
\* in crawl_all catches it
CrawlExtractRaises ==
    /\ cpc = "loop" /\ q # << >>
    /\ Head(q) \notin Range(seen)
    /\ site[Head(q)].fetch = "ok"
    /\ Extracted[site[Head(q)].hrefs].raised
    /\ fetches' = [fetches EXCEPT ![Head(q)] = @ + 1]
    /\ seen' = Append(seen, Head(q))
    /\ q' = Tail(q)
    /\ cpc' = "raised"
    /\ UNCHANGED << site, start_urls, orderVars, renderVars, out_dir,
                   mergeVars >>

\* while q: ends; return list(seen.keys())
CrawlReturn ==
    /\ cpc = "loop" /\ q = << >>
    /\ cpc' = "done"
    /\ UNCHANGED << site, start_urls, q, seen, fetches, orderVars, renderVars,
                   out_dir, mergeVars >>

NextCrawl ==
    \/ CrawlSkipSeen
    \/ CrawlFetchFail
    \/ CrawlVisit
    \/ CrawlExtractRaises
    \/ CrawlReturn

SpecCrawl == InitCrawl /\ [][NextCrawl]_vars

InitOrder ==
    /\ all_urls \in InjSeqs(ORDER_URLS, 0, MaxInput)
    /\ shuffled \in InjSeqs(Range(all_urls), Len(all_urls), Len(all_urls))
    /\ ordered = << >>
    /\ reordered = << >>
    /\ opc = "call"
    /\ CrawlIdle
    /\ PipelineIdle

\* ordered = order_urls(all_urls), on the list and on its permutation
OrderUrls ==
    /\ opc = "call"
    /\ ordered' = order_urls(all_urls)
    /\ reordered' = order_urls(shuffled)
    /\ opc' = "done"
    /\ UNCHANGED << all_urls, shuffled, crawlVars, renderVars, out_dir,
                   mergeVars >>

NextOrder == OrderUrls

SpecOrder == InitOrder /\ [][NextOrder]_vars

(***************************************************************************)
(* print_to_pdf.                                                           *)
(***************************************************************************)
DIGITS == << "0", "1", "2", "3", "4", "5", "6", "7", "8", "9" >>

\* f"{idx:04d}", for idx up to 9999
Fmt04(n) ==
    << DIGITS[((n \div 1000) % 10) + 1], DIGITS[((n \div 100) % 10) + 1],
       DIGITS[((n \div 10) % 10) + 1], DIGITS[(n % 10) + 1] >>

\* s.strip("/")
StripSlashes(s) ==
    LET keep == {i \in 1..Len(s) : s[i] # "/"}
    IN  IF keep = {} THEN << >> ELSE SubSeq(s, Min(keep), Max(keep))

\* s.replace("/", " - ")
RECURSIVE ReplaceSlashes(_)
ReplaceSlashes(s) ==
    IF s = << >> THEN << >>
    ELSE (IF Head(s) = "/" THEN << " ", "-", " " >> ELSE << Head(s) >>)
         \o ReplaceSlashes(Tail(s))

\* url_path(url).strip("/").replace("/", " - ") or "home"
safe_name(url) ==
    LET label == ReplaceSlashes(StripSlashes(url_path(url)))
    IN  IF label = << >> THEN << "h", "o", "m", "e" >> ELSE label

\* the file name f"{idx:04d} - {safe_name}.pdf" inside OUT_DIR
fname(i, url) ==
    Fmt04(i) \o << " ", "-", " " >> \o safe_name(url)
             \o << ".", "p", "d", "f" >>

\* the URLs print_to_pdf is tried on
RENDER_URLS == { U_cap1, U_home, U_art }

EmptyDir == [n \in {} |-> 0]

\* the directory with one file written (created or overwritten)
WriteFile(dir, name, content) ==
    [n \in DOMAIN dir \cup {name} |-> IF n = name THEN content ELSE dir[n]]

\* the pages of the artifact page.pdf writes for position i of run r, when
\* the page prints on n sheets
Sheets(r, i, n) == [k \in 1..n |-> [run |-> r, idx |-> i, k |-> k]]

\* print_to_pdf(urls) is called: os.makedirs(OUT_DIR, exist_ok=True) keeps
\* what the directory holds
BeginRun(r, list) ==
    /\ run = r
    /\ urls = list
    /\ idx = 0 /\ browser = "none" /\ closes = 0 /\ ppc = "launch"
    /\ fatal = "none" /\ visited = << >> /\ errs = {} /\ written = {}

InitRender ==
    /\ \E list \in SeqsOf(RENDER_URLS, 0, MaxBatch) : BeginRun(1, list)
    /\ out_dir = EmptyDir
    /\ MergeIdle
    /\ CrawlIdle /\ OrderIdle

\* browser = await launch(...)
Launch ==
    /\ ppc = "launch"
    /\ browser' = "open"
    /\ ppc' = "newpage"
    /\ UNCHANGED << run, urls, idx, closes, fatal, visited, errs, written,
                    out_dir, mergeVars, crawlVars, orderVars >>

\* launch raises (no executable, and the fallback fails too): print_to_pdf
\* raises with no browser started
LaunchFails ==
    /\ ppc = "launch"
    /\ ppc' = "raised"
    /\ fatal' = "launch"
    /\ UNCHANGED << run, urls, idx, browser, closes, visited, errs, written,
                    out_dir, mergeVars, crawlVars, orderVars >>

\* page = await browser.newPage()
NewPage ==
    /\ ppc = "newpage"
    /\ ppc' = "loop"
    /\ idx' = 1
    /\ UNCHANGED << run, urls, browser, closes, fatal, visited, errs, written,
                    out_dir, mergeVars, crawlVars, orderVars >>

\* browser.newPage() raises: the exception leaves print_to_pdf, and nothing
\* closes the browser
NewPageFails ==
    /\ ppc = "newpage"
    /\ ppc' = "raised"
    /\ fatal' = "newpage"
    /\ UNCHANGED << run, urls, idx, browser, closes, visited, errs, written,
                    out_dir, mergeVars, crawlVars, orderVars >>

\* one iteration: page.goto and page.pdf succeed, and the file is written
RenderOk ==
    /\ ppc = "loop" /\ idx <= Len(urls)
    /\ \E n \in 1..MaxPages :
          out_dir' = WriteFile(out_dir, fname(idx, urls[idx]),
                               [pages |-> Sheets(run, idx, n), badAt |-> 0])
    /\ written' = written \cup {fname(idx, urls[idx])}
    /\ visited' = Append(visited, urls[idx])
    /\ idx' = idx + 1
    /\ UNCHANGED << run, urls, browser, closes, ppc, fatal, errs, mergeVars,
                    crawlVars, orderVars >>

\* RenderFail without the handler: the Exception leaves print_to_pdf
RenderFail_Aborts ==
    /\ ppc = "loop" /\ idx <= Len(urls)
    /\ errs' = errs \cup {idx}
    /\ visited' = Append(visited, urls[idx])
    /\ ppc' = "raised"
    /\ UNCHANGED << run, urls, idx, browser, closes, fatal, written, out_dir,
                    mergeVars, crawlVars, orderVars >>

\* one iteration: page.goto or page.pdf raises an Exception before the file
\* is written, which the handler prints; the loop goes on
RenderFail ==
    /\ ppc = "loop" /\ idx <= Len(urls)
    /\ errs' = errs \cup {idx}
    /\ visited' = Append(visited, urls[idx])
    /\ idx' = idx + 1
    /\ UNCHANGED << run, urls, browser, closes, ppc, fatal, written, out_dir,
                    mergeVars, crawlVars, orderVars >>

\* one iteration: the await is cancelled or interrupted (CancelledError,
\* KeyboardInterrupt: no Exception), so the handler does not catch it
RenderInterrupted ==
    /\ ppc = "loop" /\ idx <= Len(urls)
    /\ visited' = Append(visited, urls[idx])
    /\ ppc' = "raised"
    /\ fatal' = "interrupt"
    /\ UNCHANGED << run, urls, idx, browser, closes, errs, written, out_dir,
                    mergeVars, crawlVars, orderVars >>

\* the loop is over: await browser.close(), and print_to_pdf returns
CloseBrowser ==
    /\ ppc = "loop" /\ idx > Len(urls)
    /\ browser' = "closed"
    /\ closes' = closes + 1
    /\ ppc' = "returned"
    /\ UNCHANGED << run, urls, idx, fatal, visited, errs, written, out_dir,
                    mergeVars, crawlVars, orderVars >>

NextRender ==
    \/ Launch
    \/ LaunchFails
    \/ NewPage
    \/ NewPageFails
    \/ RenderOk
    \/ RenderFail
    \/ RenderInterrupted
    \/ CloseBrowser

SpecRender == InitRender /\ [][NextRender]_vars

(***************************************************************************)
(* merge_pdfs.                                                             *)
(***************************************************************************)
\* sorted(...) of the directory's names
RECURSIVE SortedNames(_)
SortedNames(S) ==
    IF S = {} THEN << >>
    ELSE LET m == CHOOSE x \in S : \A y \in S \ {x} : StrLess(x, y)
         IN  << m >> \o SortedNames(S \ {m})

\* the names with f.lower().endswith(".pdf")
PdfNames(dir) ==
    {n \in DOMAIN dir : EndsWith(Lower(n), << ".", "p", "d", "f" >>)}

\* the directories merge_pdfs is tried on: up to MaxFiles files of 1 to
\* MaxPages pages; badAt = 0 is a file that reads completely, badAt = k a
\* file whose k-th page is where reading raises (k = 1: PdfReader(f) raises)
MERGE_ARTIFACTS == { << 1, U_cap1 >>, << 2, U_home >>, << 3, U_art >> }

FILES(i) ==
    { [pages |-> Sheets(0, i, n), badAt |-> b] :
        n \in 1..MaxPages, b \in 0..MaxPages }

InitMerge ==
    /\ \E arts \in SUBSET MERGE_ARTIFACTS :
          /\ Cardinality(arts) <= MaxFiles
          /\ out_dir \in
                {d \in [{fname(a[1], a[2]) : a \in arts} ->
                           UNION {FILES(a[1]) : a \in arts}] :
                    \A a \in arts :
                       /\ d[fname(a[1], a[2])] \in FILES(a[1])
                       /\ d[fname(a[1], a[2])].badAt
                             <= Len(d[fname(a[1], a[2])].pages)}
    /\ parts = << >> /\ writer = << >> /\ added = 0 /\ final = << >>
    /\ mpc = "list"
    /\ RenderIdle
    /\ CrawlIdle /\ OrderIdle

\* writer = PdfWriter(); parts = sorted(...); added = 0
MergeList ==
    /\ mpc = "list"
    /\ parts' = SortedNames(PdfNames(out_dir))
    /\ writer' = << >>
    /\ added' = 0
    /\ mpc' = "read"
    /\ UNCHANGED << final, out_dir, renderVars, crawlVars, orderVars >>

\* the pages of file f that reach the writer: all of them, or those before
\* the page where reading raises
PagesAdded(f) ==
    IF f.badAt = 0 THEN f.pages ELSE SubSeq(f.pages, 1, f.badAt - 1)

\* one iteration of for f in parts: every page read is added at once, and
\* an exception ends the file (except Exception: continue)
MergeFile ==
    /\ mpc = "read" /\ parts # << >>
    /\ writer' = writer \o PagesAdded(out_dir[Head(parts)])
    /\ added' = added + Len(PagesAdded(out_dir[Head(parts)]))
    /\ parts' = Tail(parts)
    /\ UNCHANGED << final, mpc, out_dir, renderVars, crawlVars, orderVars >>

\* writer.write(fp): FINAL_PDF is overwritten
MergeWrite ==
    /\ mpc = "read" /\ parts = << >>
    /\ final' = writer
    /\ mpc' = "done"
    /\ UNCHANGED << parts, writer, added, out_dir, renderVars, crawlVars,
                    orderVars >>

NextMerge ==
    \/ MergeList
    \/ MergeFile
    \/ MergeWrite

SpecMerge == InitMerge /\ [][NextMerge]_vars

(***************************************************************************)
(* main, run again and again over the same output directory.               *)
(***************************************************************************)
InitPipeline ==
    /\ \E list \in SeqsOf(RENDER_URLS, 0, MaxBatch) : BeginRun(1, list)
    /\ out_dir = EmptyDir
    /\ MergeIdle
    /\ CrawlIdle /\ OrderIdle

\* asyncio.run(print_to_pdf(ordered)) has returned: merge_pdfs()
MainMerge ==
    /\ ppc = "returned" /\ mpc = "idle"
    /\ mpc' = "list"
    /\ UNCHANGED << parts, writer, added, final, out_dir, renderVars,
                    crawlVars, orderVars >>

\* the program is started again: the directory and FINAL_PDF are as the
\* run before left them
MainAgain ==
    /\ run < MaxRuns
    /\ mpc = "done" \/ ppc = "raised"
    /\ \E list \in SeqsOf(RENDER_URLS, 0, MaxBatch) :
          /\ run' = run + 1
          /\ urls' = list
    /\ idx' = 0 /\ browser' = "none" /\ closes' = 0 /\ ppc' = "launch"
    /\ fatal' = "none" /\ visited' = << >> /\ errs' = {} /\ written' = {}
    /\ parts' = << >> /\ writer' = << >> /\ added' = 0 /\ mpc' = "idle"
    /\ UNCHANGED << final, out_dir, crawlVars, orderVars >>

NextPipeline ==
    \/ NextRender
    \/ MainMerge
    \/ NextMerge
    \/ MainAgain

SpecPipeline == InitPipeline /\ [][NextPipeline]_vars

(***************************************************************************)
(* Properties of crawl_all.                                                *)
(***************************************************************************)
FetchOk(u) == site[u].fetch = "ok"

\* the site is a link graph: extract_links yields the links of every page
LinkGraph == \A u \in CRAWL_URLS : ~Extracted[site[u].hrefs].raised

\* the links of a page; none for a page whose extraction fails
LinksOf(u) ==
    IF Extracted[site[u].hrefs].raised THEN {}
    ELSE Range(Extracted[site[u].hrefs].links)

\* the URLs reachable from R along links of pages whose fetch succeeds
RECURSIVE ReachFrom(_)
ReachFrom(R) ==
    LET more == R \cup {v \in UNION {LinksOf(u) : u \in R} : FetchOk(v)}
    IN  IF more = R THEN R ELSE ReachFrom(more)

Reachable == ReachFrom({u \in Range(start_urls) : FetchOk(u)})

NoRepeats(s) == \A i, j \in 1..Len(s) : i # j => s[i] # s[j]

\* C1: on a link graph crawl_all never raises, and what it returns is
\* exactly the set of URLs reachable from the seeds along links of pages
\* whose fetch succeeds, each listed once; nothing when every seed fails.
C1_CrawlReturnsReachable ==
    (cpc \in {"raised", "done"} /\ LinkGraph) =>
       /\ cpc = "done"
       /\ Range(seen) = Reachable
       /\ NoRepeats(seen)
       /\ (\A u \in Range(start_urls) : ~FetchOk(u)) => seen = << >>

\* a finished crawl of a link graph that met a failing URL, returned some
\* URL and left a working page out of reach
C1_Witness ==
    /\ cpc = "done" /\ LinkGraph /\ seen # << >>
    /\ \E u \in CRAWL_URLS : ~FetchOk(u) /\ fetches[u] > 0
    /\ \E v \in CRAWL_URLS : FetchOk(v) /\ v \notin Range(seen)

\* C9: a URL whose fetch failed is never fetched again and never enters the
\* visited set, so every URL is fetched at most once per crawl.
C9_FetchedAtMostOnce ==
    \A u \in CRAWL_URLS :
       /\ fetches[u] <= 1
       /\ ~FetchOk(u) => u \notin Range(seen)

\* C10: when link extraction fails on a fetched page, crawl_all does not
\* raise; it treats the page as having no links and returns everything
\* reachable that way.
C10_ExtractionFailureTolerated ==
    /\ cpc # "raised"
    /\ cpc = "done" => Range(seen) = Reachable

(***************************************************************************)
(* Properties of order_urls.                                               *)
(***************************************************************************)
\* C2: every input URL appears exactly once in the output, and nothing else
\* does.
C2_EveryUrlExactlyOnce ==
    opc = "done" =>
       /\ Range(ordered) = Range(all_urls)
       /\ Len(ordered) = Len(all_urls)
       /\ NoRepeats(ordered)

PathIn(u, paths) == \E i \in 1..Len(paths) : paths[i] = url_path(u)
IndexIn(u, paths) == CHOOSE i \in 1..Len(paths) : paths[i] = url_path(u)
IsChapter(u) == PathIn(u, CHAPTERS_IN_ORDER)
IsExtra(u)   == ~IsChapter(u) /\ PathIn(u, EXTRA_ROOTS)
IsRemaining(u) == ~IsChapter(u) /\ ~PathIn(u, EXTRA_ROOTS)

\* the first n entries of s all satisfy the segment's test and follow the
\* order of the list of paths
InListOrder(s, from, to, paths) ==
    /\ \A i \in from..to : PathIn(s[i], paths)
    /\ \A i, j \in from..to : i < j => IndexIn(s[i], paths) <= IndexIn(s[j], paths)

\* C3: the output is the URLs with a chapter path in the order of
\* CHAPTERS_IN_ORDER, then those with an extra-root path in the order of
\* EXTRA_ROOTS, then the remaining ones holding "/artigos/" sorted, those
\* holding "/faq/" sorted, and those holding neither sorted.
C3_FourSegments ==
    opc = "done" =>
       LET n1 == Cardinality({u \in Range(all_urls) : IsChapter(u)})
           n2 == Cardinality({u \in Range(all_urls) : IsExtra(u)})
           remaining == SelectSeq(all_urls, IsRemaining)
       IN  /\ Len(ordered) >= n1 + n2
           /\ InListOrder(ordered, 1, n1, CHAPTERS_IN_ORDER)
           /\ InListOrder(ordered, n1 + 1, n1 + n2, EXTRA_ROOTS)
           /\ SubSeq(ordered, n1 + n2 + 1, Len(ordered)) =
                 Sorted(SelectSeq(remaining, InArtigos))
                 \o Sorted(SelectSeq(remaining, InFaq))
                 \o Sorted(SelectSeq(remaining, InOthers))

\* C4: two input lists that are permutations of the same set of URLs give
\* the same output sequence.
C4_OrderOfTheSetOnly == opc = "done" => ordered = reordered

(***************************************************************************)
(* Properties of print_to_pdf.                                             *)
(***************************************************************************)
Exited == ppc \in {"returned", "raised"}

\* C5: whatever URLs raise an Exception in goto or pdf, the loop visits
\* every URL in list order, the file named with the 1-based position exists
\* for every URL that did not fail and for none that failed, and the browser
\* is closed exactly once, after the last URL.
C5_BatchSurvivesPageErrors ==
    /\ closes <= 1
    /\ closes = 1 => ppc = "returned" /\ visited = urls
    /\ (Exited /\ fatal = "none") =>
          /\ ppc = "returned"
          /\ visited = urls
          /\ closes = 1
          /\ written = {fname(i, urls[i]) : i \in (1..Len(urls)) \ errs}
          /\ \A i \in errs : fname(i, urls[i]) \notin written
          /\ written \subseteq DOMAIN out_dir

\* a batch of two or more URLs has returned, one failed and one did not
C5_Witness ==
    /\ ppc = "returned" /\ Len(urls) >= 2
    /\ errs # {} /\ written # {} /\ closes = 1

\* C8: once the browser is launched, every exit of print_to_pdf has closed
\* it exactly once.
C8_BrowserClosedOnEveryExit ==
    (Exited /\ browser # "none") => (closes = 1 /\ browser = "closed")

(***************************************************************************)
(* Properties of merge_pdfs and of repeated runs.                          *)
(***************************************************************************)
\* the pages of the files of names, in that order, keeping only the files
\* that read completely
RECURSIVE PagesOfCompleteFiles(_, _)
PagesOfCompleteFiles(names, dir) ==
    IF names = << >> THEN << >>
    ELSE (IF dir[Head(names)].badAt = 0 THEN dir[Head(names)].pages ELSE << >>)
         \o PagesOfCompleteFiles(Tail(names), dir)

\* C6: a file that cannot be read contributes no page, also when the error
\* comes after some of its pages were read: the final document is the pages
\* of the completely read files in file name order, and the reported count
\* is their number.
C6_NoPageOfUnreadableFile ==
    mpc = "done" =>
       /\ final = PagesOfCompleteFiles(SortedNames(PdfNames(out_dir)), out_dir)
       /\ added = Len(final)

\* the pages of the artifacts this run rendered, in the order of urls
RECURSIVE PagesOfThisRun(_)
PagesOfThisRun(i) ==
    IF i > Len(urls) THEN << >>
    ELSE (IF i \in errs THEN << >> ELSE out_dir[fname(i, urls[i])].pages)
         \o PagesOfThisRun(i + 1)

\* C7: the final document a run writes holds exactly the pages of the
\* artifacts rendered in that run, in the order of the URL list, and no
\* page of a file an earlier run left in the directory.
C7_OnlyThisRunsArtifacts ==
    mpc = "done" =>
       /\ final = PagesOfThisRun(1)
       /\ \A k \in 1..Len(final) : final[k].run = run

====
